---------------------------- MODULE Spec2Model ----------------------------
(***************************************************************************)
(* Treemap._thresholdFunction (src/src/Treemap.js, lines 162-235): the     *)
(* recursive walk that removes the records below a per-branch threshold    *)
(* from a copy of the data and appends one merged record per branch.       *)
(*                                                                         *)
(* Fractions are kept in halves: a threshold result with num = 1 is 0.5,   *)
(* thresholdPercent.num ranges over 0..2, and the comparison               *)
(* thresholdKey(item) < thresholdPercent * totalSum is evaluated exactly   *)
(* as 2 * weight < num * totalSum.                                         *)
(***************************************************************************)
EXTENDS Integers, Sequences, FiniteSets, TLC

(* ------------------------------ bounds -------------------------------- *)
MaxLen == 3
MaxRoots == 2
MaxChildren == 1

Keys == {"a", "b"}
Weights == {-1, 0, 1}
Tags == {1, 2}

(* ------------------------- numbers of the code ------------------------ *)
\* A JavaScript number as far as the threshold arithmetic needs it.
Num(n) == [kind |-> "num", num |-> n]
NaN == [kind |-> "nan", num |-> 0]
PosInf == [kind |-> "posinf", num |-> 0]
NegInf == [kind |-> "neginf", num |-> 0]

\* What the threshold function may return: -0.5, 0.5, 1.5, NaN, +-Infinity.
ThresholdResults == {Num(-1), Num(1), Num(3), NaN, PosInf, NegInf}

\* x < y on non-NaN numbers
Less(x, y) ==
    CASE x.kind = "neginf" -> y.kind # "neginf"
      [] x.kind = "posinf" -> FALSE
      [] OTHER -> \/ y.kind = "posinf"
                  \/ y.kind = "num" /\ x.num < y.num

MathMax(x, y) ==
    IF x.kind = "nan" \/ y.kind = "nan" THEN NaN
    ELSE IF Less(x, y) THEN y ELSE x

MathMin(x, y) ==
    IF x.kind = "nan" \/ y.kind = "nan" THEN NaN
    ELSE IF Less(y, x) THEN y ELSE x

isFinite(x) == x.kind = "num"

isNaN(x) == x.kind = "nan"

\* Math.min(1, Math.max(0, p)): 0 is Num(0), 1 is Num(2)
ClampPercent(p) == MathMin(Num(2), MathMax(Num(0), p))

(* ------------------------------ records ------------------------------- *)
\* A record of the data. tag tells apart two records with equal fields
\* (object identity); n is 0 for an input record and the number of the
\* producing call for a merged record; thr is _threshold (-1: not set).
Record(t, a, b, w) ==
    [tag |-> t, k0 |-> a, k1 |-> b, v |-> w, isAgg |-> FALSE, thr |-> -1, n |-> 0]

Records == {Record(t, a, b, w) : t \in Tags, a \in Keys, b \in Keys, w \in Weights}

SeqsUpTo(S, n) == UNION {[1..m -> S] : m \in 0..n}

\* Identities and keys are opaque: records are only compared with ===, keys
\* only with the key of a branch. Equal-valued records are therefore numbered
\* in order of first occurrence and the keys of the first record are called
\* "a", so that a renaming does not yield a second copy of the same input.
Canonical(s) ==
    /\ \A i \in 1..Len(s) :
          s[i].tag > 1 => \E j \in 1..(i - 1) : s[j] = [s[i] EXCEPT !.tag = @ - 1]
    /\ s # <<>> => s[1].k0 = "a" /\ s[1].k1 = "a"

DataSets == {s \in SeqsUpTo(Records, MaxLen) : Canonical(s)}

\* this._groupBy: the accessor of each depth
groupBy(depth, item) == IF depth = 0 THEN item.k0 ELSE item.k1

\* this._thresholdKey: accessor("value")
thresholdKey(item) == item.v

RECURSIVE sum(_)
sum(s) == IF s = <<>> THEN 0 ELSE thresholdKey(Head(s)) + sum(Tail(s))

(* ------------------------------- trees -------------------------------- *)
Branch(k, vals) == [key |-> k, values |-> vals]

ChildBranches == {Branch(k, <<>>) : k \in Keys}

FlatTrees == SeqsUpTo(ChildBranches, MaxRoots)

DeepTrees ==
    SeqsUpTo({Branch(k, vals) : k \in Keys,
                                vals \in SeqsUpTo(ChildBranches, MaxChildren)},
             MaxRoots)

(* --------------------------- array helpers ---------------------------- *)
RECURSIVE Reverse(_)
Reverse(s) == IF s = <<>> THEN <<>> ELSE Append(Reverse(Tail(s)), Head(s))

\* Array.prototype.filter with item => currentAccesor(item) === branch.key
FilterByKey(s, depth, key) == SelectSeq(s, LAMBDA item : groupBy(depth, item) = key)

\* indexOf counting from one
indexOfFromOne(s, item) ==
    IF \E i \in 1..Len(s) : s[i] = item
    THEN CHOOSE i \in 1..Len(s) : s[i] = item /\ \A j \in 1..(i - 1) : s[j] # item
    ELSE -1

\* Array.prototype.indexOf: zero-based index of the first identical element, -1 if none
indexOf(s, item) ==
    IF \E i \in 1..Len(s) : s[i] = item
    THEN (CHOOSE i \in 1..Len(s) : s[i] = item /\ \A j \in 1..(i - 1) : s[j] # item) - 1
    ELSE -1

\* Array.prototype.splice(index, 1): a negative index counts from the end
splice(s, index) ==
    LET len == Len(s)
        start == IF index < 0
                 THEN (IF len + index < 0 THEN 0 ELSE len + index)
                 ELSE (IF index > len THEN len ELSE index)
    IN IF start >= len THEN s
       ELSE SubSeq(s, 1, start) \o SubSeq(s, start + 2, len)

\* merge(removedItems, aggs) stamped with _isAggregation and _threshold
MergeKey(vals) == IF Cardinality(vals) = 1 THEN CHOOSE k \in vals : TRUE ELSE "mixed"

mergedItem(removedItems, thresholdPercent, call) ==
    [tag |-> 1,
     k0 |-> MergeKey({removedItems[i].k0 : i \in 1..Len(removedItems)}),
     k1 |-> MergeKey({removedItems[i].k1 : i \in 1..Len(removedItems)}),
     v |-> sum(removedItems),
     isAgg |-> TRUE,
     thr |-> thresholdPercent.num,
     n |-> call]

(* ------------------------------- state -------------------------------- *)
VARIABLES
    heap,          \* the arrays: heap.data is the caller's array, heap.copy the slice
    tree,          \* argument tree
    drawDepth,     \* this._drawDepth
    threshold,     \* TRUE iff this._threshold is set
    hasThresholdKey, \* TRUE iff this._thresholdKey is set
    thresholdMemo, \* graph of the threshold function as far as it was called
    finalDataset,  \* which array finalDataset refers to ("none" before the slice)
    totalSum,      \* const totalSum
    stack,         \* pending thresholdByDepth calls, next one first
    calls,         \* history of the leaf-adjacent calls made so far
    input,         \* the data array as it was when the function was called
    result,        \* which array was returned ("none" while running)
    pc

vars == <<heap, tree, drawDepth, threshold, hasThresholdKey, thresholdMemo,
          finalDataset, totalSum, stack, calls, input, result, pc>>

Frame(b, d, cur, path) == [branch |-> b, depth |-> d, currentDataset |-> cur, path |-> path]

Init ==
    /\ drawDepth \in 0..2
    /\ tree \in (IF drawDepth = 2 THEN DeepTrees ELSE FlatTrees)
    /\ \E d \in DataSets :
          /\ heap = [data |-> d, copy |-> <<>>]
          /\ input = d
    /\ threshold \in BOOLEAN
    /\ hasThresholdKey \in BOOLEAN
    /\ thresholdMemo = {}
    /\ finalDataset = "none"
    /\ totalSum = 0
    /\ stack = <<>>
    /\ calls = <<>>
    /\ result = "none"
    /\ pc = "start"

(* ------------------------------ actions ------------------------------- *)
\* the guard looking at the threshold only
GuardThresholdOnly(t, k) == t

\* line 169: threshold && thresholdKey
Guard(t, k) == t /\ k

\* finalDataset = data, without the slice
SliceAlias == "data"

\* line 170: data.slice() is a new array
Slice == "copy"

\* lines 169-177: the guard, the slice, the total (of the copy, which holds
\* what data holds) and the loop over the roots (n-- visits the last root first)
Enter ==
    /\ pc = "start"
    /\ Guard(threshold, hasThresholdKey)
    /\ finalDataset' = Slice
    /\ heap' = [heap EXCEPT ![Slice] = heap.data]
    /\ totalSum' = sum(heap.data)
    /\ stack' = Reverse([i \in 1..Len(tree) |-> Frame(tree[i], 0, <<>>, <<tree[i].key>>)])
    /\ pc' = "walk"
    /\ UNCHANGED <<tree, drawDepth, threshold, hasThresholdKey, thresholdMemo,
                   calls, input, result>>

\* line 234: return data
ReturnData ==
    /\ pc = "start"
    /\ ~Guard(threshold, hasThresholdKey)
    /\ result' = "data"
    /\ pc' = "done"
    /\ UNCHANGED <<heap, tree, drawDepth, threshold, hasThresholdKey, thresholdMemo,
                   finalDataset, totalSum, stack, calls, input>>

\* line 179: return finalDataset
ReturnFinal ==
    /\ pc = "walk"
    /\ stack = <<>>
    /\ result' = finalDataset
    /\ pc' = "done"
    /\ UNCHANGED <<heap, tree, drawDepth, threshold, hasThresholdKey, thresholdMemo,
                   finalDataset, totalSum, stack, calls, input>>

\* The data a call works on: the roots are handed the caller's array itself
\* (line 176), the deeper calls the filtered array of their parent (line 229).
CurrentDataset(f) == IF f.depth = 0 THEN heap.data ELSE f.currentDataset

\* the filter applied to the whole data instead of currentDataset
NextDatasetOfData(f) == FilterByKey(heap.data, f.depth, f.branch.key)

\* lines 195-198
NextDataset(f) == FilterByKey(CurrentDataset(f), f.depth, f.branch.key)

\* line 193
Stop ==
    /\ pc = "walk"
    /\ stack # <<>>
    /\ Head(stack).depth >= drawDepth
    /\ stack' = Tail(stack)
    /\ UNCHANGED <<heap, tree, drawDepth, threshold, hasThresholdKey, thresholdMemo,
                   finalDataset, totalSum, calls, input, result, pc>>

\* lines 225-231: the children, last one first
Descend ==
    /\ pc = "walk"
    /\ stack # <<>>
    /\ LET f == Head(stack)
           leaves == f.branch.values
       IN /\ f.depth < drawDepth
          /\ f.depth + 1 # drawDepth
          /\ stack' = Reverse([i \in 1..Len(leaves) |->
                                 Frame(leaves[i], f.depth + 1, NextDataset(f),
                                       Append(f.path, leaves[i].key))])
                      \o Tail(stack)
    /\ UNCHANGED <<heap, tree, drawDepth, threshold, hasThresholdKey, thresholdMemo,
                   finalDataset, totalSum, calls, input, result, pc>>

\* line 206, in halves
ThresholdValue(thresholdPercent, total) == thresholdPercent.num * total

\* the comparison with <= instead of <
BelowOrEqual(item, thresholdValue) == 2 * thresholdKey(item) <= thresholdValue

\* line 211: thresholdKey(item) < thresholdValue
Below(item, thresholdValue) == 2 * thresholdKey(item) < thresholdValue

\* lines 208-216: the loop over nextDataset, last item first.
\* Yields the output array and removedItems.
RECURSIVE RemoveLoop(_, _, _, _, _)
RemoveLoop(n, nextDataset, thresholdValue, final, removedItems) ==
    IF n = 0 THEN [final |-> final, removedItems |-> removedItems]
    ELSE LET item == nextDataset[n]
         IN IF Below(item, thresholdValue)
            THEN RemoveLoop(n - 1, nextDataset, thresholdValue,
                            splice(final, indexOf(final, item)),
                            Append(removedItems, item))
            ELSE RemoveLoop(n - 1, nextDataset, thresholdValue, final, removedItems)

\* The threshold function is pure: a second call on the same array gives
\* the same result.
ThresholdCall(nextDataset, p) ==
    IF \E m \in thresholdMemo : m.arg = nextDataset
    THEN p = (CHOOSE m \in thresholdMemo : m.arg = nextDataset).res
    ELSE p \in ThresholdResults

Skips(thresholdPercent) == ~isFinite(thresholdPercent) \/ isNaN(thresholdPercent)

\* lines 200-204: the threshold is not a number, the call returns
Skip ==
    /\ pc = "walk"
    /\ stack # <<>>
    /\ LET f == Head(stack)
           nextDataset == NextDataset(f)
       IN /\ f.depth + 1 = drawDepth
          /\ \E p \in ThresholdResults :
                /\ ThresholdCall(nextDataset, p)
                /\ Skips(ClampPercent(p))
                /\ thresholdMemo' = thresholdMemo \cup {[arg |-> nextDataset, res |-> p]}
                /\ calls' = Append(calls,
                      [path |-> f.path, nextDataset |-> nextDataset, p |-> p,
                       skipped |-> TRUE, thresholdPercent |-> ClampPercent(p),
                       thresholdValue |-> 0,
                       removedItems |-> <<>>, merged |-> <<>>,
                       before |-> heap[finalDataset], after |-> heap[finalDataset]])
    /\ stack' = Tail(stack)
    /\ UNCHANGED <<heap, tree, drawDepth, threshold, hasThresholdKey,
                   finalDataset, totalSum, input, result, pc>>

\* lines 200-223
Aggregate ==
    /\ pc = "walk"
    /\ stack # <<>>
    /\ LET f == Head(stack)
           nextDataset == NextDataset(f)
       IN /\ f.depth + 1 = drawDepth
          /\ \E p \in ThresholdResults :
                LET thresholdPercent == ClampPercent(p)
                    thresholdValue == ThresholdValue(thresholdPercent, totalSum)
                    loop == RemoveLoop(Len(nextDataset), nextDataset, thresholdValue,
                                       heap[finalDataset], <<>>)
                    merged == IF Len(loop.removedItems) > 0
                              THEN <<mergedItem(loop.removedItems, thresholdPercent,
                                                Len(calls) + 1)>>
                              ELSE <<>>
                    after == loop.final \o merged
                IN /\ ThresholdCall(nextDataset, p)
                   /\ ~Skips(thresholdPercent)
                   /\ thresholdMemo' = thresholdMemo \cup {[arg |-> nextDataset, res |-> p]}
                   /\ heap' = [heap EXCEPT ![finalDataset] = after]
                   /\ calls' = Append(calls,
                         [path |-> f.path, nextDataset |-> nextDataset, p |-> p,
                          skipped |-> FALSE, thresholdPercent |-> thresholdPercent,
                          thresholdValue |-> thresholdValue,
                          removedItems |-> loop.removedItems, merged |-> merged,
                          before |-> heap[finalDataset], after |-> after])
    /\ stack' = Tail(stack)
    /\ UNCHANGED <<tree, drawDepth, threshold, hasThresholdKey,
                   finalDataset, totalSum, input, result, pc>>

Next == Enter \/ ReturnData \/ ReturnFinal \/ Stop \/ Descend \/ Skip \/ Aggregate

Spec == Init /\ [][Next]_vars

(* ------------------------ notions of the claims ----------------------- *)
Range(s) == {s[i] : i \in 1..Len(s)}

Count(s, x) == Cardinality({i \in 1..Len(s) : s[i] = x})

Done == pc = "done"

Output == heap[result]

LeafCalls == {calls[i] : i \in 1..Len(calls)}

\* max(0, min(1, p)) of a finite p, in halves
ClampedHalves(p) == IF p.num < 0 THEN 0 ELSE IF p.num > 2 THEN 2 ELSE p.num

\* thresholdKey(r) < fraction * (total weight of the whole input), fraction in halves
UnderCutoff(r, halves) == 2 * r.v < halves * sum(input)

\* the input records whose keys equal the keys along a path
OnPath(path) ==
    SelectSeq(input, LAMBDA r : \A d \in 1..Len(path) : groupBy(d - 1, r) = path[d])

(* ------------------------------- claims ------------------------------- *)

\* C1: at every leaf-adjacent branch whose threshold function returns a
\* finite p the cutoff is max(0, min(1, p)) times the total weight of the
\* entire input, and a record of the branch is missing from the output
\* exactly when its weight is strictly below the cutoff.
C1_CutoffDecidesRemoval ==
    Done =>
        \A c \in LeafCalls :
            isFinite(c.p) =>
                /\ ~c.skipped
                /\ c.thresholdValue = ClampedHalves(c.p) * sum(input)
                /\ \A r \in Range(c.nextDataset) :
                      (r \notin Range(Output)) <=> UnderCutoff(r, ClampedHalves(c.p))

\* C2: a non-finite threshold result (NaN, +Infinity, -Infinity) leaves the
\* branch untouched, and a finite one is used as max(0, min(1, p)).
C2_NonFiniteLeavesBranch ==
    \A c \in LeafCalls :
        IF isFinite(c.p)
        THEN ~c.skipped /\ c.thresholdPercent = Num(ClampedHalves(c.p))
        ELSE c.removedItems = <<>> /\ c.merged = <<>> /\ c.after = c.before

\* C3: the output holds exactly one aggregate for every leaf-adjacent branch
\* that removed a record and none for the others; the aggregate is flagged,
\* carries the clamped fraction of its branch and was appended at the end.
C3_OneAggregatePerBranch ==
    Done =>
        /\ \A i \in 1..Len(calls) :
              LET mine == {j \in 1..Len(Output) : Output[j].isAgg /\ Output[j].n = i}
              IN /\ Cardinality(mine) = (IF calls[i].removedItems # <<>> THEN 1 ELSE 0)
                 /\ calls[i].merged # <<>> =>
                       /\ calls[i].after[Len(calls[i].after)] = calls[i].merged[1]
                       /\ calls[i].merged[1].isAgg
                       /\ calls[i].merged[1].thr = calls[i].thresholdPercent.num
        /\ \A j \in 1..Len(Output) :
              Output[j].isAgg => Output[j].n \in 1..Len(calls)

\* C4 as stated: every output record is an input record whose weight is above
\* the cutoff of its branch, or the one aggregate of a branch, and the summed
\* weight of the records merged into an aggregate is below the cutoff.
C4_AboveOrSumBelow ==
    Done /\ result # "data" =>
        \A x \in Range(Output) :
            IF x.isAgg
            THEN /\ x.n \in 1..Len(calls)
                 /\ calls[x.n].merged = <<x>>
                 /\ 2 * sum(calls[x.n].removedItems) < calls[x.n].thresholdValue
            ELSE /\ x \in Range(input)
                 /\ \A c \in LeafCalls :
                       (~c.skipped /\ x \in Range(c.nextDataset)) =>
                           2 * x.v > c.thresholdValue

\* C4 amended: every output record is an input record whose weight is not
\* below the cutoff of any processed branch it lies in, or the one aggregate
\* of a branch, and each record merged into an aggregate is below the cutoff.
C4_NotBelowOrEachBelow ==
    Done /\ result # "data" =>
        \A x \in Range(Output) :
            IF x.isAgg
            THEN /\ x.n \in 1..Len(calls)
                 /\ calls[x.n].merged = <<x>>
                 /\ \A r \in Range(calls[x.n].removedItems) :
                       /\ r \in Range(calls[x.n].nextDataset)
                       /\ 2 * r.v < calls[x.n].thresholdValue
            ELSE /\ x \in Range(input)
                 /\ \A c \in LeafCalls :
                       (~c.skipped /\ x \in Range(c.nextDataset)) =>
                           2 * x.v >= c.thresholdValue

C4_Witness ==
    /\ Done
    /\ \E c \in LeafCalls :
          /\ Len(c.removedItems) > 1
          /\ c.merged # <<>> /\ c.merged[1] \in Range(Output)
          /\ 2 * sum(c.removedItems) >= c.thresholdValue
    /\ \E x \in Range(Output) : ~x.isAgg /\ \E c \in LeafCalls : x \in Range(c.nextDataset)

\* C5: every leaf-adjacent call takes out of the output exactly the record
\* instances it selected and nothing else: no other record and no aggregate
\* appended earlier disappears.
C5_RemovalIsExact ==
    \A c \in LeafCalls :
        \A x \in Range(c.before) \cup Range(c.after) \cup Range(c.removedItems) :
            Count(c.after, x) =
                Count(c.before, x) - Count(c.removedItems, x) + Count(c.merged, x)

\* C6 as stated: a total weight of 0 means the output equals the input.
C6_ZeroTotalKeepsAll ==
    (Done /\ result # "data" /\ sum(input) = 0) => Output = input

\* C6 amended: a total weight of 0 with no negative weight means the output
\* equals the input, no record removed and no aggregate added.
C6_ZeroWeightsKeepAll ==
    (Done /\ result # "data" /\ sum(input) = 0 /\ \A r \in Range(input) : r.v >= 0) =>
        /\ Output = input
        /\ \A c \in LeafCalls : c.removedItems = <<>> /\ c.merged = <<>>

C6_Witness ==
    /\ Done /\ result # "data"
    /\ sum(input) = 0
    /\ \A r \in Range(input) : r.v >= 0
    /\ \E c \in LeafCalls :
          ~c.skipped /\ c.thresholdPercent.num > 0 /\ Len(c.nextDataset) > 1

\* C7: without a threshold or without a thresholdKey the function hands back
\* the caller's array itself, with the same records in the same order and no
\* aggregate, whatever the tree and drawDepth.
C7_AbsentIsNoOp ==
    (Done /\ ~(threshold /\ hasThresholdKey)) =>
        /\ result = "data"
        /\ Output = input
        /\ calls = <<>>

C7_Witness ==
    /\ Done
    /\ threshold /\ ~hasThresholdKey
    /\ drawDepth = 1
    /\ \E i \in 1..Len(tree) : \E r \in Range(input) : r.k0 = tree[i].key

\* C8: the total weight of the output equals the total weight of the input,
\* every branch splitting its records into removed and kept ones.
C8_WeightConserved ==
    /\ \A c \in LeafCalls :
          sum(c.removedItems)
            + sum(SelectSeq(c.nextDataset, LAMBDA r : ~Below(r, c.thresholdValue)))
            = sum(c.nextDataset) \/ c.skipped
    /\ Done => sum(Output) = sum(input)

\* C9: with threshold and thresholdKey present the caller's array is never
\* modified, the returned array is another one, and every branch takes its
\* candidates from the unmodified input.
C9_InputUntouched ==
    (pc # "start" /\ threshold /\ hasThresholdKey) =>
        /\ heap.data = input
        /\ finalDataset # "data"
        /\ Done => result # "data"
        /\ \A c \in LeafCalls : \A r \in Range(c.nextDataset) : r \in Range(input)

C9_Witness ==
    /\ Done /\ threshold /\ hasThresholdKey
    /\ Len(calls) > 1
    /\ calls[1].removedItems # <<>>
    /\ calls[2].nextDataset # <<>>
    /\ Output # input

\* C10: only branches at depth drawDepth - 1 aggregate, on exactly the input
\* records whose keys equal the keys along the path of the branch; no other
\* call changes the output, and with drawDepth = 0 the output is the input.
C10_WalkReachesLeafAdjacent ==
    pc # "start" /\ result # "data" =>
        /\ \A i \in 1..Len(calls) :
              /\ Len(calls[i].path) = drawDepth
              /\ calls[i].nextDataset = OnPath(calls[i].path)
              /\ calls[i].before = (IF i = 1 THEN input ELSE calls[i - 1].after)
        /\ heap[finalDataset] = (IF calls = <<>> THEN input ELSE calls[Len(calls)].after)
        /\ drawDepth = 0 => calls = <<>>
        /\ (Done /\ drawDepth = 0) => Output = input

C10_Witness ==
    /\ Done
    /\ drawDepth = 2
    /\ \E c \in LeafCalls :
          /\ c.removedItems # <<>>
          /\ \E r \in Range(input) : r.k0 = c.path[1] /\ r.k1 # c.path[2]

=============================================================================
